---- MODULE Spec2Model ----
(***************************************************************************)
(* A model of src/app.py: the YouTubeBot object, the scheduler thread      *)
(* (run_scheduler / YouTubeBot.run_scheduled_messages) and the HTTP        *)
(* handlers that change or exercise the bot.                               *)
(*                                                                         *)
(* Text is a sequence of one-character strings.  Python's None is the      *)
(* string "None" for chat_id and a record field for optional texts.        *)
(* time.time() is the variable clock; it advances where the code sleeps,   *)
(* by the sleep plus the time the blocking calls of that tick took.        *)
(***************************************************************************)
EXTENDS Integers, Sequences, FiniteSets, TLC

VARIABLES
    credentials,      \* bot.credentials is set (src/app.py:51, 312)
    youtube,          \* bot.youtube is a built API client (src/app.py:48, 313)
    chat_id,          \* bot.chat_id
    is_live,          \* bot.is_live
    last_messages,    \* bot.last_messages: message id -> time first seen
    last_poll_time,   \* bot.last_poll_time
    next_run,         \* next run time of the job registered at line 259
    pc,               \* position of the scheduler thread
    clock,            \* time.time()
    ticks,            \* sleeps the scheduler thread has taken
    monitor,          \* what the last status check got from the provider
    calls,            \* chat and generation calls of the loop's latest step
    cleared,          \* ids dropped by the latest reset of last_messages
    answered,         \* per id, generation requests since that reset
    posted,           \* per id, reply posts attempted since that reset
    scheduled_at,     \* when the periodic job last posted (0: never)
    ai_raw,           \* the reply the text-generation service gives /test-ai
    test_ai_response, \* ai_response of the latest /test-ai request
    test_calls,       \* chat calls of the latest /test request
    delays            \* the times the blocking calls of a live tick may take

vars == <<credentials, youtube, chat_id, is_live, last_messages,
          last_poll_time, next_run, pc, clock, ticks, monitor, calls,
          cleared, answered, posted, scheduled_at, ai_raw, test_ai_response, test_calls,
          delays>>

(***************************************************************************)
(* Program constants                                                       *)
(***************************************************************************)
INTERVAL_MINUTES == 10
MAX_RESPONSE_LENGTH == 100
POLLING_INTERVAL == 3
RETENTION == 300
LIVE_SLEEP == 1
OFFLINE_SLEEP == 60
PREFIX_LEN == 4

MESSAGE == <<"B", "l", "o", "c", "k">>
TEST_MESSAGE == <<"!", "T", "e", "s", "t">>
PREFIX == <<"!", "a", "i", " ">>
ELLIPSIS == <<".", ".", ".">>

(***************************************************************************)
(* Bounds of the model                                                     *)
(***************************************************************************)
MaxTicks == 2        \* sleeps of the scheduler thread that are explored
StartTime == 1000    \* time.time() when the process starts
MaxRawLen == 150     \* longest generated text given to /test-ai

NoChat == "None"
Whitespace == {" ", "\n"}

\* Time the blocking calls of one live tick took, on top of time.sleep(1).
Delays == {0, 2, 298, 299}

\* The same where calls return at once or hang for most of an interval.
LongDelays == {0, 599}

\* The same where every call is quick.
ShortDelays == {0, 2}

(***************************************************************************)
(* Text helpers: str.strip, str.startswith, slicing                        *)
(***************************************************************************)
RECURSIVE LStrip(_)
LStrip(s) ==
    IF s # <<>> /\ Head(s) \in Whitespace THEN LStrip(Tail(s)) ELSE s

RECURSIVE RStrip(_)
RStrip(s) ==
    IF s # <<>> /\ s[Len(s)] \in Whitespace
    THEN RStrip(SubSeq(s, 1, Len(s) - 1))
    ELSE s

Strip(s) == RStrip(LStrip(s))

\* s[:n]
Take(s, n) == SubSeq(s, 1, IF n < Len(s) THEN n ELSE Len(s))

\* s[n:]
Drop(s, n) == SubSeq(s, n + 1, Len(s))

StartsWith(s, p) == Len(s) >= Len(p) /\ SubSeq(s, 1, Len(p)) = p

\* dict helpers for last_messages
EmptyMap == [x \in {} |-> 0]

\* A slip: the assignment of line 196 left out.
PutNothing(map, key, value) == map

Put(map, key, value) ==
    [x \in DOMAIN map \cup {key} |-> IF x = key THEN value ELSE map[x]]

(***************************************************************************)
(* What the provider and the text-generation service may answer            *)
(***************************************************************************)
\* ChatMessage items of the chat (liveChatMessages().list); a message id
\* always carries the same author and text.  snippet = FALSE is an item
\* without the 'snippet' key.
Ids == {"m1", "m2", "m3", "m4", "m5", "m6"}

Msg(id) ==
    CASE id = "m1" -> [author |-> <<"B", "o", "b">>, isChatOwner |-> FALSE,
                       snippet |-> TRUE,
                       text |-> <<"!", "a", "i", " ", " ", "h", "i", " ">>]
      [] id = "m2" -> [author |-> <<"O", "w", "n">>, isChatOwner |-> TRUE,
                       snippet |-> TRUE,
                       text |-> <<"!", "a", "i", " ", "h", "i">>]
      [] id = "m3" -> [author |-> <<"B", "o", "b">>, isChatOwner |-> FALSE,
                       snippet |-> TRUE,
                       text |-> <<"!", "a", "i", " ", " ">>]
      [] id = "m4" -> [author |-> <<"A", "n", "n">>, isChatOwner |-> FALSE,
                       snippet |-> TRUE,
                       text |-> <<"!", "a", "i", " ">>]
      [] id = "m5" -> [author |-> <<"A", "n", "n">>, isChatOwner |-> FALSE,
                       snippet |-> FALSE,
                       text |-> <<>>]
      [] OTHER     -> [author |-> <<"A", "n", "n">>, isChatOwner |-> FALSE,
                       snippet |-> TRUE,
                       text |-> <<"!", "a", "i", " ", "y", "o">>]

\* The pages liveChatMessages().list may return.
Pages ==
    { <<>>, <<"m1">>, <<"m2", "m1", "m1">>, <<"m4", "m5", "m1">>,
      <<"m1", "m3", "m6">> }

\* What search().list / videos().list give one status check: an exception,
\* an empty 'items' (line 106 or line 116), or a broadcast and its chat id.
MonitorReplies ==
    { [kind |-> "error", chat |-> NoChat],
      [kind |-> "no_items", chat |-> NoChat],
      [kind |-> "live", chat |-> "A"],
      [kind |-> "live", chat |-> "B"] }

\* What the text-generation service gives one request: an HTTP or payload
\* error, an empty content, or a content string.
GenError == [kind |-> "error", content |-> <<>>]
GenEmpty == [kind |-> "ok", content |-> <<>>]
GenText == [kind |-> "ok", content |-> <<" ", "o", "k", " ">>]

\* Per page position, what the text-generation service answers if asked.
GenScripts ==
    { <<GenError, GenError, GenError>>,
      <<GenText, GenText, GenText>>,
      <<GenEmpty, GenText, GenError>>,
      <<GenText, GenError, GenText>> }

\* Per page position, whether liveChatMessages().insert succeeds if called.
InsertScripts ==
    { <<TRUE, TRUE, TRUE>>, <<FALSE, TRUE, FALSE>> }

\* What the services answer during one process_chat_messages call: the
\* fetch raises, or it returns a page and the later calls follow scripts.
NoFetch ==
    [fetch_ok |-> FALSE, page |-> <<>>,
     gens |-> <<GenError, GenError, GenError>>,
     inserts |-> <<TRUE, TRUE, TRUE>>]

CycleInputs ==
    {NoFetch} \cup
    { [fetch_ok |-> TRUE, page |-> p, gens |-> g, inserts |-> i] :
        p \in Pages, g \in GenScripts, i \in InsertScripts }

(***************************************************************************)
(* YouTubeBot.check_live_status (lines 95-126)                             *)
(***************************************************************************)
\* A slip: the missing client not taken for a failed call.
SeenUnguarded(reply) == reply

\* What the check sees: with no client built, self.youtube.search() raises.
Seen(reply) ==
    IF youtube THEN reply ELSE [kind |-> "error", chat |-> NoChat]

\* A slip: True whenever no exception was raised.
LiveReturnUnlessError(reply) == Seen(reply).kind # "error"

\* A slip: a loop that is live stays live whatever the check finds.
LiveReturnOnceLive(reply) == is_live \/ Seen(reply).kind = "live"

\* The value returned: True only from line 122.
LiveReturn(reply) == Seen(reply).kind = "live"

\* Line 118: the check found a chat id other than the one held.
NewSession(reply) ==
    Seen(reply).kind = "live" /\ Seen(reply).chat # chat_id

\* Line 120.
ChatIdAfter(reply) ==
    IF NewSession(reply) THEN Seen(reply).chat ELSE chat_id

\* A slip: line 121 left out.
LastMessagesKept(reply) == last_messages

\* Line 121.
LastMessagesAfter(reply) ==
    IF NewSession(reply) THEN EmptyMap ELSE last_messages

\* No generation request was made for any id.
NoneAnswered == [id \in Ids |-> 0]

\* The effect of one call on the bot; the caller stores LiveReturn.
check_live_status(reply) ==
    /\ chat_id' = ChatIdAfter(reply)
    /\ last_messages' = LastMessagesAfter(reply)
    /\ cleared' = IF NewSession(reply) THEN DOMAIN last_messages ELSE cleared
    /\ answered' = IF NewSession(reply) THEN NoneAnswered ELSE answered
    /\ posted' = IF NewSession(reply) THEN NoneAnswered ELSE posted
    /\ monitor' = Seen(reply)

(***************************************************************************)
(* YouTubeBot.generate_ai_response (lines 128-167)                         *)
(***************************************************************************)
\* A slip: the cut at the limit, not three short of it.
TruncateAtLimit(ai_message) ==
    IF Len(ai_message) > MAX_RESPONSE_LENGTH
    THEN Take(ai_message, MAX_RESPONSE_LENGTH) \o ELLIPSIS
    ELSE ai_message

\* Lines 156-157.
Truncate(ai_message) ==
    IF Len(ai_message) > MAX_RESPONSE_LENGTH
    THEN Take(ai_message, MAX_RESPONSE_LENGTH - 3) \o ELLIPSIS
    ELSE ai_message

\* The value returned: None on any exception, else the stripped and
\* truncated content.
generate_ai_response(reply) ==
    IF reply.kind = "error"
    THEN [none |-> TRUE, text |-> <<>>]
    ELSE [none |-> FALSE, text |-> Truncate(Strip(reply.content))]

\* Python truthiness of the returned value (line 213, line 344).
Truthy(resp) == ~resp.none /\ resp.text # <<>>

(***************************************************************************)
(* YouTubeBot.send_message (lines 229-256)                                 *)
(***************************************************************************)
\* The calls one send_message makes: none without a chat id, else one
\* insert, which fails when the provider fails or no client is built.
SendMessage(chat, message_text, insert_ok) ==
    IF chat = NoChat
    THEN <<>>
    ELSE << [op |-> "insert", arg |-> chat, text |-> message_text,
             ok |-> youtube /\ insert_ok] >>

\* A slip: a failed insert tried once more.
send_message_retry(message_text, insert_ok) ==
    IF youtube /\ insert_ok
    THEN SendMessage(chat_id, message_text, insert_ok)
    ELSE SendMessage(chat_id, message_text, insert_ok)
         \o SendMessage(chat_id, message_text, insert_ok)

\* A call made while self.chat_id is as in the current state.
send_message(message_text, insert_ok) ==
    SendMessage(chat_id, message_text, insert_ok)

(***************************************************************************)
(* YouTubeBot.process_chat_messages (lines 169-227)                        *)
(***************************************************************************)
\* Line 207.
IsCommand(message) == StartsWith(message, PREFIX) /\ Len(message) > PREFIX_LEN

\* Line 209.
Prompt(message) == Strip(Drop(message, PREFIX_LEN))

\* A slip: the leading "!" left out.
ResponseMessageNoBang(author, ai_response) ==
    <<"@">> \o author \o <<" ">> \o ai_response

\* Line 214.
ResponseMessage(author, ai_response) ==
    <<"!", "@">> \o author \o <<" ">> \o ai_response

\* A slip: the owner flag read under a key the item never has.
FromOwnerWrongKey(item) == FALSE

\* Line 203.
FromOwner(item) == item.isChatOwner

\* A slip: the test against the dict as it was when the call began.
AlreadySeenAtStart(seen, message_id) == message_id \in DOMAIN last_messages

\* Line 193: the item was processed before.
AlreadySeen(seen, message_id) == message_id \in DOMAIN seen

\* A slip: the response tested against None only.
ShouldReplyUnlessNone(ai_response) == ~ai_response.none

\* Line 213.
ShouldReply(ai_response) == Truthy(ai_response)

\* A slip: <= for <.
RetainedInclusive(current_time, t) == current_time - t <= RETENTION

\* Line 223.
Retained(current_time, t) == current_time - t < RETENTION

\* Lines 221-224.
Evict(seen, current_time) ==
    [id \in {x \in DOMAIN seen : Retained(current_time, seen[x])} |-> seen[id]]

\* Lines 212-215 for one command.
Dispatch(message_id, item, gen, insert_ok) ==
    LET prompt == Prompt(item.text)
        ai_response == generate_ai_response(gen)
    IN  << [op |-> "generate", arg |-> message_id, text |-> prompt,
            ok |-> ~ai_response.none, response |-> ai_response.text] >>
        \o (IF ShouldReply(ai_response)
            THEN send_message(ResponseMessage(item.author, ai_response.text),
                              insert_ok)
            ELSE <<>>)

\* Lines 191-215: the loop over the page from item i on.  gens[i] and
\* inserts[i] are what the services answer for item i, if asked.
RECURSIVE Items(_, _, _, _, _, _, _)
Items(page, i, seen, log, gens, inserts, current_time) ==
    IF i > Len(page)
    THEN [seen |-> seen, log |-> log, raised |-> FALSE]
    ELSE
        LET message_id == page[i]
            item == Msg(message_id)
            seen1 == Put(seen, message_id, current_time)
        IN  IF AlreadySeen(seen, message_id)
            THEN Items(page, i + 1, seen, log, gens, inserts, current_time)
            ELSE IF ~item.snippet
            THEN [seen |-> seen1, log |-> log, raised |-> TRUE]
            ELSE IF FromOwner(item)
            THEN Items(page, i + 1, seen1, log, gens, inserts, current_time)
            ELSE IF IsCommand(item.text)
            THEN Items(page, i + 1, seen1,
                       log \o Dispatch(message_id, item, gens[i], inserts[i]),
                       gens, inserts, current_time)
            ELSE Items(page, i + 1, seen1, log, gens, inserts, current_time)

\* The generation requests a log holds for one message id.
Requests(log, id) ==
    LET For(c) == c.op = "generate" /\ c.arg = id
    IN  Len(SelectSeq(log, For))

\* A slip: the interval taken to be the sleep of a live tick.
ThrottledByTick(current_time) == current_time - last_poll_time < LIVE_SLEEP

\* The reply posts (line 215) a log holds for one message id: each follows
\* the generation request it answers.
Posts(log, id) ==
    Cardinality({ k \in DOMAIN log :
                    /\ log[k].op = "insert" /\ k > 1
                    /\ log[k - 1].op = "generate" /\ log[k - 1].arg = id })

\* Line 177.
Throttled(current_time) == current_time - last_poll_time < POLLING_INTERVAL

\* The whole call: what it leaves in last_messages and last_poll_time and
\* the calls it made.  fetch_ok: liveChatMessages().list did not raise.
process_chat_messages(fetch_ok, page, gens, inserts) ==
    LET current_time == clock
        listed == [op |-> "list", arg |-> chat_id, text |-> page,
                   ok |-> youtube /\ fetch_ok]
        r == Items(page, 1, last_messages, <<listed>>, gens, inserts,
                   current_time)
    IN  IF chat_id = NoChat \/ Throttled(current_time)
        THEN [seen |-> last_messages, polled |-> last_poll_time,
              log |-> <<>>]
        ELSE IF ~listed.ok
        THEN [seen |-> last_messages, polled |-> current_time,
              log |-> << [listed EXCEPT !.text = <<>>] >>]
        ELSE [seen |-> IF r.raised THEN r.seen
                       ELSE Evict(r.seen, current_time),
              polled |-> current_time,
              log |-> r.log]

(***************************************************************************)
(* The scheduler thread: run_scheduler (lines 348-351) and                 *)
(* YouTubeBot.run_scheduled_messages (lines 258-272)                       *)
(***************************************************************************)
bot_unchanged ==
    UNCHANGED <<chat_id, is_live, last_messages, last_poll_time, cleared,
                answered, posted, monitor>>

diag_unchanged == UNCHANGED <<ai_raw, test_ai_response, test_calls, delays>>

\* Lines 349-351 and 259: without credentials the thread ends at once;
\* with them it registers the periodic job and enters the loop.
RunScheduler ==
    /\ pc = "start"
    /\ pc' = IF credentials THEN "check" ELSE "done"
    /\ next_run' = IF credentials THEN clock + INTERVAL_MINUTES * 60
                   ELSE next_run
    /\ scheduled_at' = scheduled_at
    /\ bot_unchanged /\ diag_unchanged
    /\ UNCHANGED <<credentials, youtube, clock, ticks, calls>>

\* Line 262, then 263 or 270.
CheckOuter ==
    /\ pc = "check"
    /\ \E reply \in MonitorReplies :
          /\ check_live_status(reply)
          /\ is_live' = LiveReturn(reply)
          /\ pc' = IF LiveReturn(reply) THEN "process" ELSE "offline"
    /\ diag_unchanged
    /\ UNCHANGED <<credentials, youtube, last_poll_time, next_run, clock,
                   ticks, calls,
                   scheduled_at>>

\* Line 272.
OfflineSleep ==
    /\ pc = "offline"
    /\ ticks < MaxTicks
    /\ clock' = clock + OFFLINE_SLEEP
    /\ ticks' = ticks + 1
    /\ pc' = "check"
    /\ bot_unchanged /\ diag_unchanged
    /\ UNCHANGED <<credentials, youtube, next_run, calls,
                   scheduled_at>>

\* Line 266.  A call that returns before the fetch asks the services
\* nothing, so there is nothing to choose.
ProcessChat ==
    /\ pc = "process"
    /\ \E in \in IF chat_id = NoChat \/ Throttled(clock)
                 THEN {NoFetch} ELSE CycleInputs :
          \E r \in {process_chat_messages(in.fetch_ok, in.page, in.gens,
                                          in.inserts)} :
              /\ last_messages' = r.seen
              /\ last_poll_time' = r.polled
              /\ calls' = r.log
              /\ answered' = [id \in Ids |-> answered[id] + Requests(calls', id)]
              /\ posted' = [id \in Ids |-> posted[id] + Posts(calls', id)]
    /\ pc' = "pending"
    /\ diag_unchanged
    /\ UNCHANGED <<credentials, youtube, chat_id, is_live, cleared, monitor,
                   next_run, clock, ticks,
                   scheduled_at>>

\* A slip: the job run by every run_pending() call.
JobDueAlways == TRUE

\* The job of line 259 is due.
JobDue == clock >= next_run

\* Line 267: schedule.run_pending() runs the due job, send_message(), and
\* schedules its next run one interval from now.
RunPending ==
    /\ pc = "pending"
    /\ \E insert_ok \in BOOLEAN :
          calls' = IF JobDue THEN send_message(MESSAGE, insert_ok)
                   ELSE <<>>
    /\ next_run' = IF JobDue THEN clock + INTERVAL_MINUTES * 60 ELSE next_run
    /\ scheduled_at' = IF calls' # <<>> THEN clock ELSE scheduled_at
    /\ pc' = "sleep"
    /\ bot_unchanged /\ diag_unchanged
    /\ UNCHANGED <<credentials, youtube, clock, ticks>>

\* Line 268.
LiveSleep ==
    /\ pc = "sleep"
    /\ ticks < MaxTicks
    /\ \E d \in delays : clock' = clock + LIVE_SLEEP + d
    /\ ticks' = ticks + 1
    /\ pc' = "recheck"
    /\ calls' = <<>>
    /\ bot_unchanged /\ diag_unchanged
    /\ UNCHANGED <<credentials, youtube, next_run,
                   scheduled_at>>

\* Line 269, then 265: a false result leaves the inner loop for line 262.
CheckInner ==
    /\ pc = "recheck"
    /\ \E reply \in MonitorReplies :
          /\ check_live_status(reply)
          /\ is_live' = LiveReturn(reply)
          /\ pc' = IF LiveReturn(reply) THEN "process" ELSE "check"
    /\ diag_unchanged
    /\ UNCHANGED <<credentials, youtube, last_poll_time, next_run, clock,
                   ticks, calls,
                   scheduled_at>>

(***************************************************************************)
(* HTTP handlers                                                           *)
(***************************************************************************)
\* auth() with a code (lines 289-314): only without credentials.
AuthCallback ==
    /\ ~credentials
    /\ credentials' = TRUE
    /\ youtube' = TRUE
    /\ bot_unchanged /\ diag_unchanged
    /\ UNCHANGED <<next_run, pc, clock, ticks, calls,
                   scheduled_at>>

\* test_ai() (lines 334-346).
TestAi ==
    /\ credentials
    /\ test_ai_response' = <<generate_ai_response(ai_raw)>>
    /\ bot_unchanged
    /\ UNCHANGED <<credentials, youtube, next_run, pc, clock, ticks, calls,
                   ai_raw, test_calls, delays,
                   scheduled_at>>

\* test_endpoint() (lines 318-332): a status check whose result is stored
\* in bot.is_live, then a test message to the chat id the bot holds.
TestEndpoint ==
    /\ credentials
    /\ \E reply \in MonitorReplies, insert_ok \in BOOLEAN :
          /\ check_live_status(reply)
          /\ is_live' = LiveReturn(reply)
          /\ test_calls' = SendMessage(chat_id', TEST_MESSAGE, insert_ok)
    /\ UNCHANGED <<credentials, youtube, last_poll_time, next_run, pc, clock,
                   ticks, calls, ai_raw, test_ai_response, delays,
                   scheduled_at>>

(***************************************************************************)
(* Specifications                                                          *)
(***************************************************************************)
BotInit ==
    /\ youtube = FALSE
    /\ chat_id = NoChat
    /\ is_live = FALSE
    /\ last_messages = EmptyMap
    /\ last_poll_time = 0
    /\ next_run = 0
    /\ scheduled_at = 0
    /\ pc = "start"
    /\ clock = StartTime
    /\ ticks = 0
    /\ monitor = [kind |-> "none", chat |-> NoChat]
    /\ calls = <<>>
    /\ cleared = {}
    /\ answered = NoneAnswered
    /\ posted = NoneAnswered
    /\ test_ai_response = <<>>
    /\ test_calls = <<>>

\* The process starts with or without a stored credentials file (line 51).
Init ==
    /\ BotInit
    /\ credentials \in BOOLEAN
    /\ ai_raw = GenError
    /\ delays = Delays

Next ==
    \/ RunScheduler
    \/ CheckOuter
    \/ OfflineSleep
    \/ ProcessChat
    \/ RunPending
    \/ LiveSleep
    \/ CheckInner
    \/ AuthCallback

Spec == Init /\ [][Next]_vars

\* The steps of the scheduler thread.
LoopNext ==
    \/ RunScheduler
    \/ CheckOuter
    \/ OfflineSleep
    \/ ProcessChat
    \/ RunPending
    \/ LiveSleep
    \/ CheckInner

\* The scheduler thread and the requests to /test and /test-ai, which
\* Flask serves on threads of their own, in any order.
NextDiag ==
    \/ Next
    \/ TestEndpoint
    \/ TestAi

\* Requests are served while every call of the loop is quick.
InitDiag ==
    /\ BotInit
    /\ credentials \in BOOLEAN
    /\ ai_raw = GenError
    /\ delays = ShortDelays

SpecDiag == InitDiag /\ [][NextDiag]_vars

\* The loop where a tick takes a second or a whole interval of the
\* periodic job.
InitSchedule ==
    /\ BotInit
    /\ credentials \in BOOLEAN
    /\ ai_raw = GenError
    /\ delays = LongDelays

SpecSchedule == InitSchedule /\ [][Next]_vars

\* Generated texts of every length up to MaxRawLen, bare or padded with
\* whitespace, and a failed request.
Body(n) == [i \in 1..n |-> IF i % 2 = 1 THEN "a" ELSE "b"]

Pad(k) == [i \in 1..k |-> " "]

RawReplies ==
    {GenError} \cup
    { [kind |-> "ok", content |-> Pad(lead) \o Body(n) \o Pad(trail)] :
        n \in 0..MaxRawLen, lead \in 0..1, trail \in 0..1 }

\* The Responder alone: /test-ai on an authenticated process.
InitAi ==
    /\ BotInit
    /\ credentials = TRUE
    /\ ai_raw \in RawReplies
    /\ delays = Delays

NextAi == TestAi

SpecAi == InitAi /\ [][NextAi]_vars

(***************************************************************************)
(* Reading the log of a loop iteration                                     *)
(***************************************************************************)
InLiveLoop == pc \in {"process", "pending", "sleep", "recheck"}

\* The positions of the thread inside run_scheduled_messages.
LoopPositions == {"check", "offline", "process", "pending", "sleep", "recheck"}

\* Where a message id first appears in a page.
FirstAt(page, id) ==
    CHOOSE i \in DOMAIN page :
        page[i] = id /\ \A j \in 1..(i - 1) : page[j] # id

\* The log starts with a fetch that returned a page.
Fetched(log) == log # <<>> /\ log[1].op = "list" /\ log[1].ok

PageOf(log) == log[1].text

RequestedFor(log, id) ==
    \E k \in DOMAIN log : log[k].op = "generate" /\ log[k].arg = id

\* Item i of the page is reached by the loop of lines 191-215 when no
\* earlier item, new to seen, lacks its snippet.
Reached(page, seen, i) ==
    \A j \in 1..(i - 1) : Msg(page[j]).snippet \/ page[j] \in DOMAIN seen

\* The call got to the eviction of lines 221-224.
Completed(log, seen) ==
    /\ Fetched(log)
    /\ \A j \in DOMAIN PageOf(log) :
          Msg(PageOf(log)[j]).snippet \/ PageOf(log)[j] \in DOMAIN seen

(***************************************************************************)
(* C1: the scheduler loop is inside its live loop only while the latest    *)
(* status check returned live; a check that found no broadcast or failed   *)
(* leaves is_live false and the loop outside the live loop, and is_live    *)
(* is true only after a live result.                                       *)
(***************************************************************************)
C1_LiveOnlyOnLiveResult ==
    /\ is_live <=> monitor.kind = "live"
    /\ InLiveLoop => is_live
    /\ pc = "offline" => monitor.kind \in {"error", "no_items"}
    /\ pc \in {"offline", "start", "done"} => ~is_live

\* The loop is live again after a sleep, and has been offline before
\* (a check without a live result).
C1_Witness ==
    /\ pc = "process" /\ is_live /\ monitor.kind = "live"
    /\ ticks > 0 /\ clock >= StartTime + OFFLINE_SLEEP

(***************************************************************************)
(* C2: a status check that returns a chat id other than the one held       *)
(* leaves last_messages empty and holds the new id; and every command of   *)
(* a fetched page whose id is not in last_messages is sent to the          *)
(* Responder, so an id seen under the old session is dispatched again.     *)
(***************************************************************************)
C2_NewChatIdClearsSeen ==
    [][ /\ ( /\ pc \in {"check", "recheck"}
             /\ monitor'.kind = "live"
             /\ monitor'.chat # chat_id )
           => last_messages' = EmptyMap /\ chat_id' = monitor'.chat
        /\ (pc = "process" /\ Fetched(calls'))
           => \A i \in DOMAIN PageOf(calls') :
                 LET id == PageOf(calls')[i]
                 IN  ( /\ id \notin DOMAIN last_messages
                       /\ Reached(PageOf(calls'), last_messages, i)
                       /\ Msg(id).snippet
                       /\ ~Msg(id).isChatOwner
                       /\ IsCommand(Msg(id).text) )
                     => RequestedFor(calls', id)
      ]_vars

\* m1 was seen in session A, dropped by the change to B, and has just been
\* dispatched again from a page fetched in session B.
C2_Witness ==
    /\ chat_id = "B" /\ "m1" \in cleared
    /\ Fetched(calls) /\ calls[1].arg = "B"
    /\ RequestedFor(calls, "m1")

(***************************************************************************)
(* C3: chat_id is set if and only if is_live is true; it is cleared when   *)
(* the loop goes from live to offline.                                     *)
(***************************************************************************)
C3_ChatIdIffLive == (chat_id # NoChat) <=> is_live

(***************************************************************************)
(* C4: within one chat session a message id is sent to the Responder at    *)
(* most once, however often the provider returns it.                       *)
(***************************************************************************)
C4_DispatchedOnce == \A id \in Ids : answered[id] <= 1

(***************************************************************************)
(* C4, amended: a message sent to the Responder was not in last_messages   *)
(* and is in it, with the time of this poll, when the call ends, whatever  *)
(* the generation request and the post did; it is sent at most once per    *)
(* poll; and its entry stays, under the same chat id, through every step   *)
(* taken less than 300 after it was recorded.  So no poll dispatches it    *)
(* again within 300 of the poll that recorded it.                          *)
(***************************************************************************)
C4_NotAgainWhileRetained ==
    [][ /\ pc = "process" =>
              \A id \in Ids :
                  RequestedFor(calls', id)
                  => /\ id \notin DOMAIN last_messages
                     /\ id \in DOMAIN last_messages'
                     /\ last_messages'[id] = clock
                     /\ answered'[id] = answered[id] + 1
        /\ \A id \in DOMAIN last_messages :
              (chat_id' = chat_id /\ clock - last_messages[id] < 300)
              => /\ id \in DOMAIN last_messages'
                 /\ last_messages'[id] = last_messages[id]
      ]_vars

\* A later poll of the same session returned m1 again, and m1, dispatched
\* once and still recorded, was not sent to the Responder.
C4_Witness ==
    /\ pc = "pending" /\ Fetched(calls)
    /\ PageOf(calls) = <<"m1">>
    /\ ~RequestedFor(calls, "m1")
    /\ answered["m1"] = 1
    /\ "m1" \in DOMAIN last_messages /\ last_messages["m1"] < clock

(***************************************************************************)
(* C5: a page that holds a new message id twice dispatches it at most      *)
(* once in that call.                                                      *)
(***************************************************************************)
C5_DuplicateInPageOnce ==
    \A j, k \in DOMAIN calls :
        ( /\ calls[j].op = "generate" /\ calls[k].op = "generate"
          /\ calls[j].arg = calls[k].arg ) => j = k

\* The page held m1 twice, new, and m1 was dispatched.
C5_Witness ==
    /\ Fetched(calls)
    /\ PageOf(calls) = <<"m2", "m1", "m1">>
    /\ RequestedFor(calls, "m1")
    /\ last_messages["m1"] = clock

(***************************************************************************)
(* C6: an id in last_messages is filtered by every chat poll; an entry of  *)
(* age 299 or less keeps its place and its time through the poll, and an   *)
(* entry of age 300 or more is gone after a poll that got to its eviction  *)
(* (so one seen at T is filtered at T+299 and evicted at T+301).           *)
(***************************************************************************)
C6_RetentionBoundary ==
    [][ pc = "process" =>
          \A id \in DOMAIN last_messages :
              /\ ~RequestedFor(calls', id)
              /\ clock - last_messages[id] <= 299
                 => /\ id \in DOMAIN last_messages'
                    /\ last_messages'[id] = last_messages[id]
              /\ ( /\ Completed(calls', last_messages)
                   /\ clock - last_messages[id] >= 300 )
                 => id \notin DOMAIN last_messages'
      ]_vars

\* One poll returned m1, m3 and m6: m3, seen 299 ago, was filtered and is
\* kept; m1, dispatched earlier in this session and seen before m3, was
\* filtered too and is evicted.
C6_Witness ==
    /\ pc = "pending" /\ Fetched(calls)
    /\ PageOf(calls) = <<"m1", "m3", "m6">>
    /\ "m3" \in DOMAIN last_messages
    /\ last_messages["m3"] = clock - 299
    /\ ~RequestedFor(calls, "m3")
    /\ ~RequestedFor(calls, "m1")
    /\ answered["m1"] = 1
    /\ "m1" \notin DOMAIN last_messages

(***************************************************************************)
(* C7: a message flagged isChatOwner never causes a generation request or  *)
(* a chat post, whatever its text; when new, it is still recorded in       *)
(* last_messages.                                                          *)
(***************************************************************************)
C7_OwnerNeverDispatched ==
    [][ pc = "process" =>
          /\ \A k \in DOMAIN calls' :
                /\ calls'[k].op = "generate" => ~Msg(calls'[k].arg).isChatOwner
                /\ calls'[k].op = "insert"
                   => /\ calls'[k - 1].op = "generate"
                      /\ ~Msg(calls'[k - 1].arg).isChatOwner
          /\ Fetched(calls')
             => \A i \in DOMAIN PageOf(calls') :
                   LET id == PageOf(calls')[i]
                   IN  ( /\ Msg(id).isChatOwner
                         /\ id \notin DOMAIN last_messages
                         /\ Reached(PageOf(calls'), last_messages, i) )
                       => /\ id \in DOMAIN last_messages'
                          /\ last_messages'[id] = clock
      ]_vars

\* The owner's "!ai hi" (m2) was new in the page: it is recorded now, and
\* only m1 was sent to the Responder.
C7_Witness ==
    /\ pc = "pending" /\ Fetched(calls)
    /\ PageOf(calls) = <<"m2", "m1", "m1">>
    /\ "m2" \in DOMAIN last_messages /\ last_messages["m2"] = clock
    /\ ~RequestedFor(calls, "m2")
    /\ RequestedFor(calls, "m1")

(***************************************************************************)
(* C8: the payload handed to the Responder is never empty: a text that is  *)
(* the prefix followed only by whitespace is not dispatched.               *)
(***************************************************************************)
C8_PayloadNeverEmpty ==
    \A k \in DOMAIN calls : calls[k].op = "generate" => calls[k].text # <<>>

(***************************************************************************)
(* C9: the response generate_ai_response returns for a generated text is   *)
(* at most 100 long; a text longer than 100 after stripping comes back as  *)
(* its first 97 characters and "...", a shorter one as it is.              *)
(***************************************************************************)
C9_TruncatedTo100 ==
    (test_ai_response # <<>> /\ ai_raw.kind = "ok") =>
        LET stripped == Strip(ai_raw.content)
            response == test_ai_response[1]
        IN  /\ ~response.none
            /\ Len(response.text) <= 100
            /\ Len(stripped) > 100
               => response.text = SubSeq(stripped, 1, 97) \o <<".", ".", ".">>
            /\ Len(stripped) <= 100 => response.text = stripped

\* A text of 150 characters came back 100 long.
C9_Witness ==
    /\ test_ai_response # <<>> /\ ai_raw.kind = "ok"
    /\ Len(Strip(ai_raw.content)) = 150
    /\ Len(test_ai_response[1].text) = 100

(***************************************************************************)
(* C10: three generation failures in a row produce one degraded-service    *)
(* chat post right after the third.                                        *)
(***************************************************************************)
C10_NoticeAfterThreeFailures ==
    \A k \in DOMAIN calls :
        ( /\ k + 2 \in DOMAIN calls
          /\ \A j \in k..(k + 2) : calls[j].op = "generate" /\ ~calls[j].ok )
        => /\ k + 3 \in DOMAIN calls
           /\ calls[k + 3].op = "insert"

(***************************************************************************)
(* C11: a process_chat_messages call made less than 3 after the time held  *)
(* in last_poll_time makes no list call and changes nothing; every list    *)
(* call, whether it succeeds or fails, is made 3 or more after that time   *)
(* and stores its own time there; and the stored time never runs ahead of  *)
(* the clock or goes back.  So a call within 3 of the last successful      *)
(* poll fetches nothing, and two list calls are 3 or more apart.           *)
(***************************************************************************)
C11_PollingIntervalKept ==
    [][ /\ pc = "process" =>
              /\ clock - last_poll_time < 3
                 => /\ calls' = <<>>
                    /\ last_messages' = last_messages
                    /\ last_poll_time' = last_poll_time
              /\ \A k \in DOMAIN calls' :
                    calls'[k].op = "list"
                    => /\ k = 1
                       /\ clock - last_poll_time >= 3
                       /\ last_poll_time' = clock
        /\ pc # "process" =>
              \A k \in DOMAIN calls' : calls'[k].op # "list"
        /\ last_poll_time' >= last_poll_time
        /\ last_poll_time' <= clock'
        /\ clock' >= clock
      ]_vars

\* A call made 1 after a poll that fetched a page: no call was made and
\* the messages recorded by that poll are as they were.
C11_Witness ==
    /\ pc = "pending" /\ calls = <<>>
    /\ clock - last_poll_time = 1
    /\ "m1" \in DOMAIN last_messages
    /\ last_messages["m1"] = last_poll_time

(***************************************************************************)
(* C12: no failed call ends the loop.  A status check that fails, or is    *)
(* made without a built client, leaves is_live false and the loop at its   *)
(* next check; a failed fetch yields no messages and changes nothing but   *)
(* last_poll_time; a failed generation is followed by no post; and after   *)
(* any of them, and after a failed post, the thread is at the next         *)
(* statement of the loop.  Once in the loop the thread never leaves it,    *)
(* and at every position in it there is a step for it to take.             *)
(***************************************************************************)
C12_FailuresStayInLoop ==
    /\ [][ /\ pc \in LoopPositions => pc' \in LoopPositions
           /\ (pc \in {"check", "recheck"} /\ (monitor'.kind = "error" \/ ~youtube))
              => /\ ~is_live'
                 /\ monitor'.kind = "error"
                 /\ pc' = IF pc = "check" THEN "offline" ELSE "check"
           /\ pc = "process"
              => /\ pc' = "pending"
                 /\ (calls' # <<>> /\ ~calls'[1].ok)
                    => Len(calls') = 1 /\ last_messages' = last_messages
                 /\ \A k \in DOMAIN calls' :
                       (calls'[k].op = "generate" /\ ~calls'[k].ok)
                       => (k = Len(calls') \/ calls'[k + 1].op = "generate")
           /\ pc = "pending" => pc' = "sleep"
         ]_vars
    /\ [] ((pc \in LoopPositions /\ ticks < MaxTicks) => ENABLED LoopNext)

\* After a tick, one poll had a post fail, then a generation fail, then a
\* post fail again, and the thread is at line 267.
C12_Witness ==
    /\ pc = "pending" /\ ticks > 0
    /\ Fetched(calls)
    /\ \E k \in DOMAIN calls :
          /\ k + 3 \in DOMAIN calls
          /\ calls[k].op = "insert" /\ ~calls[k].ok
          /\ calls[k + 1].op = "generate" /\ ~calls[k + 1].ok
          /\ calls[k + 2].op = "generate" /\ calls[k + 2].ok
          /\ calls[k + 3].op = "insert" /\ ~calls[k + 3].ok

(***************************************************************************)
(* C13: no request to /test or /test-ai, at whatever point of the loop it  *)
(* is served, changes chat_id, is_live or last_messages.                   *)
(***************************************************************************)
C13_DiagnosticsChangeNothing ==
    [][ (TestEndpoint \/ TestAi)
        => UNCHANGED <<chat_id, is_live, last_messages>> ]_vars

(***************************************************************************)
(* C14: a missing credential or client does not end the scheduler thread   *)
(* and does not keep it from the provider for good: the thread has not     *)
(* ended while the bot holds credentials, and once credentials are held    *)
(* the loop runs with a built client.                                      *)
(***************************************************************************)
C14_MissingCredentialOnlyDefers ==
    /\ credentials => pc # "done"
    /\ (credentials /\ pc \in LoopPositions) => youtube

(***************************************************************************)
(* C15: one command never yields two chat posts.                           *)
(***************************************************************************)
C15_OneCommandOnePost == \A id \in Ids : posted[id] <= 1

(***************************************************************************)
(* C15, amended: every insert of a poll directly follows the generation    *)
(* request it answers, so a dispatch is followed by at most one insert     *)
(* attempt, failed or not; a poll dispatches an id at most once; and it    *)
(* posts only for ids that were not in last_messages when it began, so no  *)
(* post is made again for an id while its entry is kept.  The periodic     *)
(* job makes at most one insert attempt too.                               *)
(***************************************************************************)
C15_OneInsertPerDispatch ==
    [][ /\ pc = "process" =>
              /\ \A k \in DOMAIN calls' :
                    calls'[k].op = "insert"
                    => k > 1 /\ calls'[k - 1].op = "generate"
              /\ \A id \in Ids :
                    /\ Posts(calls', id) <= Requests(calls', id)
                    /\ Requests(calls', id) <= 1
                    /\ Posts(calls', id) > 0 => id \notin DOMAIN last_messages
                    /\ posted'[id] = posted[id] + Posts(calls', id)
        /\ pc = "pending" => Len(calls') <= 1
        /\ pc \notin {"process", "pending"} => calls' = <<>>
      ]_vars

\* A post was attempted for m1 in an earlier poll of this session; this
\* poll returned m1 again, still recorded, and neither asked the Responder
\* nor posted for it.
C15_Witness ==
    /\ pc = "pending" /\ Fetched(calls)
    /\ PageOf(calls) = <<"m1">>
    /\ Posts(calls, "m1") = 0 /\ Requests(calls, "m1") = 0
    /\ posted["m1"] = 1
    /\ "m1" \in DOMAIN last_messages /\ last_messages["m1"] < clock

(***************************************************************************)
(* C16: the calls of one poll are made in page order.  Generation          *)
(* requests are made in the order in which their messages first appear in  *)
(* the page, each for the stripped text after the prefix; every post       *)
(* directly follows the request it answers, so it is made before the next  *)
(* message's request; and its text is "!@", the author, a space and the    *)
(* response, sent to the chat id held.                                     *)
(***************************************************************************)
C16_RepliesInPageOrder ==
    (pc = "pending" /\ Fetched(calls)) =>
        /\ \A k \in DOMAIN calls :
              calls[k].op = "generate"
              => /\ \E i \in DOMAIN PageOf(calls) : PageOf(calls)[i] = calls[k].arg
                 /\ calls[k].text = Strip(SubSeq(Msg(calls[k].arg).text, 5,
                                                 Len(Msg(calls[k].arg).text)))
        /\ \A j, k \in DOMAIN calls :
              (j < k /\ calls[j].op = "generate" /\ calls[k].op = "generate")
              => FirstAt(PageOf(calls), calls[j].arg)
                     < FirstAt(PageOf(calls), calls[k].arg)
        /\ \A k \in DOMAIN calls :
              calls[k].op = "insert"
              => /\ k > 1 /\ calls[k - 1].op = "generate"
                 /\ calls[k - 1].ok /\ calls[k - 1].response # <<>>
                 /\ calls[k].arg = chat_id
                 /\ calls[k].text = <<"!", "@">> \o Msg(calls[k - 1].arg).author
                                    \o <<" ">> \o calls[k - 1].response

\* One poll returned m1, m3 and m6, all new: the Responder was asked for
\* m1, the reply to Bob was posted, then the same for m3 and for m6.
C16_Witness ==
    /\ pc = "pending" /\ Fetched(calls)
    /\ PageOf(calls) = <<"m1", "m3", "m6">>
    /\ Len(calls) = 7
    /\ calls[2].op = "generate" /\ calls[2].arg = "m1"
    /\ calls[3].op = "insert"
    /\ calls[3].text = <<"!", "@", "B", "o", "b", " ", "o", "k">>
    /\ calls[4].op = "generate" /\ calls[4].arg = "m3"
    /\ calls[6].op = "generate" /\ calls[6].arg = "m6"
    /\ calls[7].op = "insert"
    /\ calls[7].text = <<"!", "@", "A", "n", "n", " ", "o", "k">>

(***************************************************************************)
(* C17: the thread comes to line 266 only by a status check that has just  *)
(* returned live, and a chat poll leaves that line, so between two chat    *)
(* polls there is a check that returned live.  Chat and generation calls   *)
(* are made only at lines 266 and 267 and only while the latest check      *)
(* returned live; a check that did not return live makes no call and       *)
(* sends the thread to the sleep of line 272 or to the check of line 262.  *)
(***************************************************************************)
C17_LivenessCheckedEachCycle ==
    [][ /\ pc' = "process"
           => /\ pc \in {"check", "recheck"}
              /\ monitor'.kind = "live" /\ is_live'
        /\ pc = "process" => pc' = "pending"
        /\ pc = "sleep" => pc' = "recheck"
        /\ calls' # <<>>
           => /\ pc \in {"process", "pending"}
              /\ monitor.kind = "live" /\ is_live
        /\ (pc \in {"check", "recheck"} /\ monitor'.kind # "live")
           => /\ ~is_live'
              /\ calls' = <<>>
              /\ pc' = IF pc = "check" THEN "offline" ELSE "check"
      ]_vars

\* The loop was live and polled the chat; the check after the sleep found
\* no broadcast, and the thread is back at line 262 with no call made.
C17_Witness ==
    /\ pc = "check" /\ ticks > 0
    /\ ~is_live /\ monitor.kind = "no_items"
    /\ chat_id # NoChat /\ last_poll_time >= StartTime
    /\ calls = <<>>

(***************************************************************************)
(* C18: the periodic message is posted only by line 267, on a tick of the  *)
(* live loop, exactly when the job's time has come (10 minutes after it    *)
(* was registered or last ran); the post sets the job's next time 10       *)
(* minutes ahead, and nothing else moves it.  So a post comes 600 or more  *)
(* after the post before it, and none is made outside the live loop.       *)
(***************************************************************************)
C18_ScheduledPostEveryTenMinutes ==
    [][ /\ pc = "pending"
           => /\ calls' # <<>> <=> clock >= next_run
              /\ calls' # <<>>
                 => /\ Len(calls') = 1
                    /\ calls'[1].op = "insert"
                    /\ calls'[1].text = <<"B", "l", "o", "c", "k">>
                    /\ calls'[1].arg = chat_id
                    /\ is_live /\ monitor.kind = "live"
                    /\ next_run' = clock + 600
                    /\ scheduled_at' = clock
                    /\ scheduled_at > 0 => clock - scheduled_at >= 600
              /\ calls' = <<>>
                 => next_run' = next_run /\ scheduled_at' = scheduled_at
        /\ pc # "pending"
           => /\ \A k \in DOMAIN calls' :
                    ~(calls'[k].op = "insert"
                      /\ calls'[k].text = <<"B", "l", "o", "c", "k">>)
              /\ scheduled_at' = scheduled_at
              /\ pc # "start" => next_run' = next_run
      ]_vars

\* The job posted at 1600, ten minutes after it was registered, and has
\* now posted again at 2200, on the next tick of the live loop.
C18_Witness ==
    /\ pc = "sleep" /\ is_live
    /\ Len(calls) = 1 /\ calls[1].op = "insert"
    /\ calls[1].text = <<"B", "l", "o", "c", "k">>
    /\ clock = StartTime + 1200
    /\ scheduled_at = clock
    /\ next_run = clock + 600

(***************************************************************************)
(* C19: when a process_chat_messages call has returned, whether it         *)
(* fetched a page, was throttled or failed, last_messages holds no entry   *)
(* that is 300 or more old.                                                *)
(***************************************************************************)
C19_NoStaleEntryAfterPoll ==
    pc = "pending" =>
        \A id \in DOMAIN last_messages : clock - last_messages[id] < 300

(***************************************************************************)
(* C20: when the generation request for a command fails or returns an     *)
(* empty text, no post is made for it; the message is in last_messages     *)
(* with the time of the poll when the call ends; every later item of the   *)
(* page that is a new command from another user, and is reached, is still  *)
(* sent to the Responder; and no poll sends an id to the Responder that    *)
(* is in last_messages when it begins, or drops an entry less than 300     *)
(* old.                                                                    *)
(***************************************************************************)
C20_NoResponseNoPost ==
    [][ pc = "process" =>
          /\ \A k \in DOMAIN calls' :
                ( /\ calls'[k].op = "generate"
                  /\ (~calls'[k].ok \/ calls'[k].response = <<>>) )
                => /\ k = Len(calls') \/ calls'[k + 1].op = "generate"
                   /\ Posts(calls', calls'[k].arg) = 0
                   /\ calls'[k].arg \in DOMAIN last_messages'
                   /\ last_messages'[calls'[k].arg] = clock
                   /\ \A i \in DOMAIN PageOf(calls') :
                         LET id == PageOf(calls')[i]
                         IN  ( /\ i > FirstAt(PageOf(calls'), calls'[k].arg)
                               /\ id \notin DOMAIN last_messages
                               /\ Reached(PageOf(calls'), last_messages, i)
                               /\ Msg(id).snippet
                               /\ ~Msg(id).isChatOwner
                               /\ Len(Msg(id).text) > 4
                               /\ SubSeq(Msg(id).text, 1, 4)
                                      = <<"!", "a", "i", " ">> )
                             => RequestedFor(calls', id)
          /\ \A id \in DOMAIN last_messages :
                /\ ~RequestedFor(calls', id)
                /\ clock - last_messages[id] < 300
                   => id \in DOMAIN last_messages'
      ]_vars

\* One poll returned m1, m3 and m6, all new: the request for m1 returned
\* an empty text and nothing was posted, m3 was answered and posted, the
\* request for m6 failed and nothing was posted; m1 and m6 are recorded.
C20_Witness ==
    /\ pc = "pending" /\ Fetched(calls)
    /\ PageOf(calls) = <<"m1", "m3", "m6">>
    /\ Len(calls) = 5
    /\ calls[2].op = "generate" /\ calls[2].arg = "m1"
    /\ calls[2].ok /\ calls[2].response = <<>>
    /\ calls[3].op = "generate" /\ calls[3].arg = "m3"
    /\ calls[4].op = "insert"
    /\ calls[5].op = "generate" /\ calls[5].arg = "m6" /\ ~calls[5].ok
    /\ last_messages["m1"] = clock /\ last_messages["m6"] = clock

====
